---- MODULE Spec2Model ----
(***************************************************************************)
(* Model of packagecount/count.py: the memoized, cycle-guarded dependency  *)
(* closure of DependencyCalculator, the concurrent graph build of          *)
(* packages_and_dependencies and the ignore filtering of main.             *)
(***************************************************************************)
EXTENDS FiniteSets, Integers, Sequences, TLC

\* Largest number of direct dependencies a package of the modelled graphs has.
MaxDeps == 2

\* Names 'pacman -Q' lists: the keys of the dependency dict.
Packages == {"A", "B", "C"}
\* A name that only ever appears inside dependency sets, never as a key.
UnknownName == "D"
Names == Packages \cup {UnknownName}

DepSets == {S \in SUBSET Names : Cardinality(S) <= MaxDeps}

\* Largest number of dependency edges of the graphs main is run on, and the
\* largest number of names passed with --ignore.
MaxEdges == 3
MaxIgnore == 1

NumEdges(g) == Cardinality(UNION {{<<p, d>> : d \in g[p]} : p \in DOMAIN g})
MainGraphs == {g \in [Packages -> DepSets] : NumEdges(g) <= MaxEdges}

\* The orders a set can be iterated in.
Perms(S) == {f \in [1..Cardinality(S) -> S] :
                \A i, j \in 1..Cardinality(S) : i # j => f[i] # f[j]}

VARIABLES
    \* DependencyCalculator
    dependency_dict,     \* self._dependency_dict
    observed_packages,   \* self._observed_packages
    memo,                \* the functools.cache entries of this instance
    stack,               \* active calculate_all_dependencies frames, innermost last
    returned,            \* the most recent return of calculate_all_dependencies
    answered,            \* per package main has queried: the first value it got,
                         \* and whether it has queried the package again since
    \* packages_and_dependencies
    answer,              \* per package, what its 'pacman -Qi' subprocess prints
    build_pc,            \* where the coroutine stands
    tasks,               \* the collect_dependencies tasks, in gather's argument order
    completed,           \* the indices of the finished tasks, in completion order
    graph,               \* the dict the coroutine returned
    \* main
    main_pc,
    packages_unfiltered,
    explicitly_installed_packages_unfiltered,
    ignore_set,
    recursive,
    packages,
    explicitly_installed_packages,
    recursive_dependencies,
    key_order,           \* the keys of packages in the dict's order, once iterated
    packages_sorted_unfiltered,
    packages_sorted,
    printed,             \* what main has printed: the total, n and the report lines
    walk,                \* the dependency_chain call in progress
    \* two DependencyCalculator instances in one process
    engines,             \* per instance: its _dependency_dict and _observed_packages
    cache,               \* the one cache functools.cache keeps for the method
    alone,               \* per instance: what it would hold were it the only one called
    last,                \* the most recent top-level call and what it returned
    origin               \* per memoized package, the kind of call that wrote its entry

engineVars == <<dependency_dict, observed_packages, memo, stack, returned, answered>>
buildVars == <<answer, build_pc, tasks, completed, graph>>
mainInputs == <<packages_unfiltered, explicitly_installed_packages_unfiltered,
                ignore_set, recursive>>
reportVars == <<packages_sorted_unfiltered, packages_sorted, walk>>
mainVars == <<main_pc, mainInputs, packages, explicitly_installed_packages,
              recursive_dependencies, key_order, printed, reportVars>>
processVars == <<engines, cache, alone, last, origin>>
vars == <<engineVars, buildVars, mainVars, processVars>>

EmptyMap == [x \in {} |-> {}]
NoReturn == [package |-> "", value |-> {}, branch |-> "none", top |-> FALSE]

\* self._dependency_dict.get(package, set())
Dependencies(package) ==
    IF package \in DOMAIN dependency_dict THEN dependency_dict[package] ELSE {}

\* Variant: the method is not wrapped in a cache, every call runs the body.
MemoizedNever(package) == FALSE

\* The lookup functools.cache does before it runs the body.
Memoized(package) == package \in DOMAIN memo

\* Variant: the body does not test for an observed package.
ObservedNever(package) == FALSE

\* package in self._observed_packages
Observed(package) == package \in observed_packages

\* Variant: the body returns the recursive results only.
CombinedAdditionalOnly(dependencies, additional_dependencies) ==
    additional_dependencies

\* Variant: the body returns the direct dependencies only.
CombinedDirectOnly(dependencies, additional_dependencies) ==
    dependencies

\* {*dependencies, *additional_dependencies}
Combined(dependencies, additional_dependencies) ==
    dependencies \cup additional_dependencies

\* Variant: the cache keeps nothing.
StoreNothing(m, package, value) == m

\* The cache stores the value the body returned under the call's key.
Store(m, package, value) ==
    [x \in DOMAIN m \cup {package} |-> IF x = package THEN value ELSE m[x]]

Top == stack[Len(stack)]

\* A call of package can be made: by main when no call is active, otherwise by
\* the innermost frame for a dependency its generator has not yet visited.
CanCall(package) ==
    IF stack = <<>> THEN TRUE ELSE package \in Top.todo

\* Hands value to the caller of the call of package that just returned, the
\* stack being rest once the callee's frame (if any) is gone.
Deliver(rest, package, value, branch) ==
    /\ returned' = [package |-> package, value |-> value, branch |-> branch,
                    top |-> (rest = <<>>)]
    /\ IF rest = <<>>
       THEN /\ stack' = rest
            /\ answered' = IF package \in DOMAIN answered
                           THEN [answered EXCEPT ![package].again = TRUE]
                           ELSE Store(answered, package,
                                      [first |-> value, again |-> FALSE])
       ELSE /\ stack' = [rest EXCEPT ![Len(rest)] =
                            [@ EXCEPT !.todo = @ \ {package},
                                      !.acc = @ \cup value]]
            /\ answered' = answered

\* DependencyCalculator.__init__ over dependency_dict d.
Constructed(d) ==
    /\ dependency_dict = d
    /\ observed_packages = {}
    /\ memo = EmptyMap
    /\ stack = <<>>
    /\ returned = NoReturn
    /\ answered = EmptyMap

NoGraph == [p \in Packages |-> {}]

BuildNotStarted ==
    /\ build_pc = "idle"
    /\ tasks = <<>>
    /\ completed = <<>>
    /\ graph = EmptyMap

NothingPrinted == [total |-> 0, n |-> 0, lines |-> <<>>]
NoWalk == [pc |-> "idle", start |-> "", length |-> 0, package |-> "", depth |-> 0,
           out |-> <<>>]

MainNotStarted ==
    /\ main_pc = "start"
    /\ packages = EmptyMap
    /\ explicitly_installed_packages = {}
    /\ recursive_dependencies = EmptyMap
    /\ key_order = <<>>
    /\ packages_sorted_unfiltered = <<>>
    /\ packages_sorted = <<>>
    /\ printed = NothingPrinted
    /\ walk = NoWalk

NoMain ==
    /\ MainNotStarted
    /\ packages_unfiltered = NoGraph
    /\ explicitly_installed_packages_unfiltered = {}
    /\ ignore_set = {}
    /\ recursive = TRUE

NoBuild ==
    /\ BuildNotStarted
    /\ answer = [p \in Packages |-> [kind |-> "text", stdout |-> <<>>]]

NoCall == [self |-> 0, package |-> "", value |-> {}, alone |-> {}]

NoProcess ==
    /\ engines = <<>>
    /\ cache = EmptyMap
    /\ alone = <<>>
    /\ last = NoCall
    /\ origin = EmptyMap

\* An engine over any graph, queried in any order.
Init ==
    /\ \E d \in [Packages -> DepSets] : Constructed(d)
    /\ NoBuild
    /\ NoMain
    /\ NoProcess

\* The call is answered from the cache; the body does not run.
CacheHit(package) ==
    /\ CanCall(package)
    /\ Memoized(package)
    /\ Deliver(stack, package, memo[package], "cache")
    /\ UNCHANGED <<dependency_dict, observed_packages, memo, buildVars, mainVars, processVars>>

\* The body runs and finds package already observed: it returns the direct
\* dependencies, which the cache stores.
CycleGuard(package) ==
    /\ CanCall(package)
    /\ ~Memoized(package)
    /\ Observed(package)
    /\ memo' = Store(memo, package, Dependencies(package))
    /\ Deliver(stack, package, Dependencies(package), "guard")
    /\ UNCHANGED <<dependency_dict, observed_packages, buildVars, mainVars, processVars>>

\* The body runs, marks package observed and starts iterating its dependencies.
Expand(package) ==
    /\ CanCall(package)
    /\ ~Memoized(package)
    /\ ~Observed(package)
    /\ observed_packages' = observed_packages \cup {package}
    /\ stack' = Append(stack, [package |-> package,
                               todo |-> Dependencies(package),
                               acc |-> {}])
    /\ UNCHANGED <<dependency_dict, memo, returned, answered, buildVars, mainVars, processVars>>

\* Variant: the body counts the package itself among its dependencies.
ReturnWithSelf ==
    /\ stack # <<>>
    /\ Top.todo = {}
    /\ LET package == Top.package
           value == Combined(Dependencies(package), Top.acc) \cup {package}
       IN /\ memo' = Store(memo, package, value)
          /\ Deliver(SubSeq(stack, 1, Len(stack) - 1), package, value, "expand")
    /\ UNCHANGED <<dependency_dict, observed_packages, buildVars, mainVars, processVars>>

\* The innermost frame has visited every dependency: it returns the union,
\* which the cache stores.
Return ==
    /\ stack # <<>>
    /\ Top.todo = {}
    /\ LET package == Top.package
           value == Combined(Dependencies(package), Top.acc)
       IN /\ memo' = Store(memo, package, value)
          /\ Deliver(SubSeq(stack, 1, Len(stack) - 1), package, value, "expand")
    /\ UNCHANGED <<dependency_dict, observed_packages, buildVars, mainVars, processVars>>

Next ==
    \/ \E package \in Names : CacheHit(package)
    \/ \E package \in Names : CycleGuard(package)
    \/ \E package \in Names : Expand(package)
    \/ Return

Spec == Init /\ [][Next]_vars

\* A step of a call in progress. The interpreter runs a call to its end, so a
\* call that can take a step takes it.
Running ==
    /\ stack # <<>>
    /\ Next

\* The engine over the graphs of at most MaxEdges edges.
InitLive ==
    /\ \E d \in MainGraphs : Constructed(d)
    /\ NoBuild
    /\ NoMain
    /\ NoProcess

LiveSpec == InitLive /\ [][Next]_vars /\ WF_vars(Running)

----
(***************************************************************************)
(* Text. A str is a sequence of one-character strings.                     *)
(***************************************************************************)
UpperCase == <<"A", "B", "C", "D", "E", "F", "G", "H", "I", "J", "K", "L", "M",
               "N", "O", "P", "Q", "R", "S", "T", "U", "V", "W", "X", "Y", "Z">>
LowerCase == <<"a", "b", "c", "d", "e", "f", "g", "h", "i", "j", "k", "l", "m",
               "n", "o", "p", "q", "r", "s", "t", "u", "v", "w", "x", "y", "z">>
WhiteSpace == {" ", "\n", "\t"}

\* str.lower()
LowerChar(c) ==
    IF \E i \in 1..Len(UpperCase) : UpperCase[i] = c
    THEN LowerCase[CHOOSE i \in 1..Len(UpperCase) : UpperCase[i] = c]
    ELSE c
Lower(s) == [i \in 1..Len(s) |-> LowerChar(s[i])]

\* str.strip()
Strip(s) ==
    LET inner == {i \in 1..Len(s) : s[i] \notin WhiteSpace}
    IN IF inner = {} THEN <<>>
       ELSE SubSeq(s, CHOOSE i \in inner : \A j \in inner : i <= j,
                      CHOOSE i \in inner : \A j \in inner : j <= i)

\* s[i:].startswith(sep)
StartsAt(s, sep, i) ==
    /\ i + Len(sep) - 1 <= Len(s)
    /\ \A k \in 1..Len(sep) : s[i + k - 1] = sep[k]

\* sep in s
Contains(s, sep) == \E i \in 1..Len(s) : StartsAt(s, sep, i)

\* str.split(sep, maxsplit) for maxsplit >= 0; -1 splits at every occurrence.
RECURSIVE SplitFrom(_, _, _, _, _)
SplitFrom(s, sep, maxsplit, start, i) ==
    IF maxsplit = 0 \/ i > Len(s)
    THEN <<SubSeq(s, start, Len(s))>>
    ELSE IF StartsAt(s, sep, i)
    THEN <<SubSeq(s, start, i - 1)>>
         \o SplitFrom(s, sep, maxsplit - 1, i + Len(sep), i + Len(sep))
    ELSE SplitFrom(s, sep, maxsplit, start, i + 1)

Split(s, sep, maxsplit) == SplitFrom(s, sep, maxsplit, 1, 1)

Colon == <<":">>
NewLine == <<"\n">>
DoubleSpace == <<" ", " ">>
DependsOn == <<"d", "e", "p", "e", "n", "d", "s", " ", "o", "n">>

(***************************************************************************)
(* What 'pacman -Qi <package>' can print.                                  *)
(***************************************************************************)
\* No output at all: the package is unknown or the command failed.
NoOutput == <<>>
\* "Name : a" and no "Depends On" record.
OutNoRecord == <<"N", "a", "m", "e", " ", ":", " ", "a", "\n">>
\* A "Depends On" record with an empty value.
OutEmptyValue == <<"D", "e", "p", "e", "n", "d", "s", " ", "O", "n", " ", ":", "\n">>
\* Two dependencies, the first with a version constraint after a single space.
OutTwoDeps == <<"D", "e", "p", "e", "n", "d", "s", " ", "O", "n", " ", ":", " ", "x", " ", ">", "1", " ", " ", "y", "\n">>
\* The key in lower case and without padding, one dependency.
OutLowerKey == <<"d", "e", "p", "e", "n", "d", "s", " ", "o", "n", ":", "z", "\n">>
\* Bytes that are not UTF-8: stdout.decode() raises UnicodeDecodeError.
Undecodable == [kind |-> "undecodable", stdout |-> <<>>]
\* The subprocess never ends: communicate() never returns.
Hangs == [kind |-> "hangs", stdout |-> <<>>]
\* The subprocess ends having printed stdout, which is UTF-8.
Printed(stdout) == [kind |-> "text", stdout |-> stdout]

Outputs == {NoOutput, OutNoRecord, OutEmptyValue, OutTwoDeps, OutLowerKey}
Answers == {Printed(o) : o \in Outputs} \cup {Undecodable, Hangs}

\* stdout.decode().split("\n")
RunLines(stdout) == Split(stdout, NewLine, -1)

\* {key.strip().lower(): value.strip() for key, value in info_pairs}, the pairs
\* being line.split(":", 1) of the lines that hold a colon; of two records with
\* the same key the later one stays.
InfoDict(lines) ==
    LET records == {i \in 1..Len(lines) : Contains(lines[i], Colon)}
        Key(i) == Lower(Strip(Split(lines[i], Colon, 1)[1]))
        Value(i) == Strip(Split(lines[i], Colon, 1)[2])
        keys == {Key(i) : i \in records}
        Last(k) == CHOOSE i \in records :
                       /\ Key(i) = k
                       /\ \A j \in records : Key(j) = k => j <= i
    IN [k \in keys |-> Value(Last(k))]

\* info_dict.get("depends on", "").split("  ")
ExtractDependencies(lines) ==
    LET info_dict == InfoDict(lines)
        value == IF DependsOn \in DOMAIN info_dict THEN info_dict[DependsOn]
                 ELSE <<>>
    IN Split(value, DoubleSpace, -1)

\* package_dependencies applied to what the subprocess printed.
PackageDependencies(stdout) == ExtractDependencies(RunLines(stdout))

----
(***************************************************************************)
(* packages_and_dependencies: one collect_dependencies task per package,   *)
(* gathered. A task runs from one await to the next without interruption.  *)
(***************************************************************************)
\* dict(pairs): of two pairs with the same key the later one stays.
Dict(pairs) ==
    LET keys == {pairs[i][1] : i \in 1..Len(pairs)}
        Last(k) == CHOOSE i \in 1..Len(pairs) :
                       /\ pairs[i][1] = k
                       /\ \A j \in 1..Len(pairs) : pairs[j][1] = k => j <= i
    IN [k \in keys |-> pairs[Last(k)][2]]

\* What gather hands back: the tasks' results in the order of its arguments.
GatherResults(ts) == [i \in 1..Len(ts) |-> ts[i].result]

\* Variant: the closure reads the comprehension's variable when it runs, by
\* which time it holds the last package.
CollectResultLateBound(package, stdout) ==
    <<tasks[Len(tasks)].package, PackageDependencies(stdout)>>

\* return package, await package_dependencies(package)
CollectResult(package, stdout) == <<package, PackageDependencies(stdout)>>

Finished(t) == t.pc \in {"done", "raised"}

\* packages_names has answered: gather wraps one coroutine per package of
\* packages_set, in the set's iteration order, and the coroutine awaits it.
BuildStart ==
    /\ build_pc = "idle"
    /\ \E order \in Perms(Packages) :
           tasks' = [i \in 1..Len(order) |->
                        [package |-> order[i], pc |-> "created", result |-> <<>>]]
    /\ build_pc' = "gathering"
    /\ UNCHANGED <<answer, completed, graph, engineVars, mainVars, processVars>>

\* The task starts and suspends in create_subprocess_shell.
TaskStart(i) ==
    /\ i \in 1..Len(tasks)
    /\ tasks[i].pc = "created"
    /\ tasks' = [tasks EXCEPT ![i].pc = "spawning"]
    /\ UNCHANGED <<answer, build_pc, completed, graph, engineVars, mainVars, processVars>>

\* The subprocess exists: the task suspends in proc.communicate().
TaskCommunicate(i) ==
    /\ i \in 1..Len(tasks)
    /\ tasks[i].pc = "spawning"
    /\ tasks' = [tasks EXCEPT ![i].pc = "communicating"]
    /\ UNCHANGED <<answer, build_pc, completed, graph, engineVars, mainVars, processVars>>

\* The subprocess has ended: the task decodes and parses what it printed and
\* returns its pair, or stdout.decode() raises.
TaskFinish(i) ==
    /\ i \in 1..Len(tasks)
    /\ tasks[i].pc = "communicating"
    /\ answer[tasks[i].package] # Hangs
    /\ tasks' = IF answer[tasks[i].package] = Undecodable
                THEN [tasks EXCEPT ![i].pc = "raised"]
                ELSE [tasks EXCEPT ![i].pc = "done",
                                   ![i].result = CollectResult(tasks[i].package,
                                                 answer[tasks[i].package].stdout)]
    /\ completed' = Append(completed, i)
    /\ UNCHANGED <<answer, build_pc, graph, engineVars, mainVars, processVars>>

\* Every task has returned: gather's result becomes the dict.
BuildReturn ==
    /\ build_pc = "gathering"
    /\ \A i \in 1..Len(tasks) : tasks[i].pc = "done"
    /\ graph' = Dict(GatherResults(tasks))
    /\ build_pc' = "returned"
    /\ UNCHANGED <<answer, tasks, completed, engineVars, mainVars, processVars>>

\* A task has raised: gather passes the exception on to the coroutine at once
\* and leaves the other tasks as they are.
BuildRaise ==
    /\ build_pc = "gathering"
    /\ \E i \in 1..Len(tasks) : tasks[i].pc = "raised"
    /\ build_pc' = "raised"
    /\ UNCHANGED <<answer, tasks, completed, graph, engineVars, mainVars, processVars>>

InitBuild ==
    /\ answer \in [Packages -> Answers]
    /\ BuildNotStarted
    /\ Constructed(NoGraph)
    /\ NoMain
    /\ NoProcess

NextBuild ==
    \/ BuildStart
    \/ \E i \in 1..Cardinality(Packages) : TaskStart(i)
    \/ \E i \in 1..Cardinality(Packages) : TaskCommunicate(i)
    \/ \E i \in 1..Cardinality(Packages) : TaskFinish(i)
    \/ BuildReturn
    \/ BuildRaise

SpecBuild == InitBuild /\ [][NextBuild]_vars

----
\* calculate_all_dependencies as a function of the engine state e = [memo,
\* observed]: the engine state after the call together with the value returned.
\* ord is the order in which the dependency sets are iterated.
FirstOf(ord, todo) ==
    IF Cardinality(todo) = 1 THEN CHOOSE d \in todo : TRUE
    ELSE ord[CHOOSE i \in 1..Len(ord) :
                 /\ ord[i] \in todo
                 /\ \A j \in 1..(i - 1) : ord[j] \notin todo]

RECURSIVE Calculate(_, _, _), Visit(_, _, _, _)
Calculate(e, package, ord) ==
    IF package \in DOMAIN e.memo
    THEN [memo |-> e.memo, observed |-> e.observed, value |-> e.memo[package]]
    ELSE IF package \in e.observed
    THEN [memo |-> Store(e.memo, package, Dependencies(package)),
          observed |-> e.observed, value |-> Dependencies(package)]
    ELSE LET r == Visit([memo |-> e.memo,
                         observed |-> e.observed \cup {package}],
                        Dependencies(package), {}, ord)
             value == Combined(Dependencies(package), r.value)
         IN [memo |-> Store(r.memo, package, value), observed |-> r.observed,
             value |-> value]

Visit(e, todo, acc, ord) ==
    IF todo = {}
    THEN [memo |-> e.memo, observed |-> e.observed, value |-> acc]
    ELSE LET dependency == FirstOf(ord, todo)
             r == Calculate(e, dependency, ord)
         IN Visit([memo |-> r.memo, observed |-> r.observed],
                  todo \ {dependency}, acc \cup r.value, ord)

\* DependencyCalculator(dependency_dict): nothing observed, nothing memoized.
FreshEngine == [memo |-> EmptyMap, observed |-> {}]

----
(***************************************************************************)
(* One engine answering whole top-level calls, over graphs with a fourth   *)
(* listed package.                                                         *)
(***************************************************************************)
\* A listed package no other package depends on.
LatePackage == "E"
WidePackages == Packages \cup {LatePackage}

MaxWideEdges == 5

WideGraphs ==
    {g \in [WidePackages -> DepSets] :
        /\ g[LatePackage] \subseteq Packages
        /\ Cardinality(g[LatePackage]) <= 1
        /\ NumEdges(g) <= MaxWideEdges}

\* The names whose place in the iteration order shows.
IteratedNames ==
    UNION {dependency_dict[p] :
              p \in {q \in DOMAIN dependency_dict :
                        Cardinality(dependency_dict[q]) >= 2}}

InitCalls ==
    /\ \E d \in WideGraphs : Constructed(d)
    /\ NoBuild
    /\ NoMain
    /\ NoProcess

\* main calls calculate_all_dependencies(package) and the call returns; what it
\* returns is the entry of package it leaves memoized. An entry the call adds is that of package itself, written by the first call the
\* engine answers or by a later one, or one written inside its traversal.
TopLevelCall(package) ==
    /\ stack = <<>>
    /\ \E ord \in Perms(IteratedNames) :
           LET r == Calculate([memo |-> memo, observed |-> observed_packages],
                              package, ord)
           IN /\ memo' = r.memo
              /\ observed_packages' = r.observed
              /\ origin' = [q \in DOMAIN r.memo |->
                               IF q \in DOMAIN memo THEN origin[q]
                               ELSE IF q # package THEN "nested"
                               ELSE IF observed_packages = {} THEN "first"
                               ELSE "later"]
    /\ UNCHANGED <<dependency_dict, stack, returned, answered, engines, cache,
                   alone, last, buildVars, mainVars>>

NextCalls == \E package \in WidePackages : TopLevelCall(package)

SpecCalls == InitCalls /\ [][NextCalls]_vars

----
(***************************************************************************)
(* Two DependencyCalculator instances in one process. functools.cache      *)
(* wraps the function once, at class definition: both instances go through *)
(* the same cache, whose keys are built from the arguments (self, package).*)
(***************************************************************************)
Instances == {1, 2}

\* Graphs whose packages have at most one dependency, a listed package.
SingleDepGraphs == [Packages -> {S \in SUBSET Packages : Cardinality(S) <= 1}]

\* Variant: a cache keyed by the package name alone.
CacheKeyNameOnly(self, package) == <<0, package>>

\* The key of a call: self, hashed and compared by identity, and package.
CacheKey(self, package) == <<self, package>>

\* calculate_all_dependencies(self, package), self having dependency dict g,
\* on the process state s = [cache, observed], observed being self's
\* _observed_packages: the state after the call and the value returned.
RECURSIVE CalculateOn(_, _, _, _, _), VisitOn(_, _, _, _, _, _)
CalculateOn(g, self, s, package, ord) ==
    LET key == CacheKey(self, package)
        dependencies == IF package \in DOMAIN g THEN g[package] ELSE {}
    IN IF key \in DOMAIN s.cache
       THEN [cache |-> s.cache, observed |-> s.observed, value |-> s.cache[key]]
       ELSE IF package \in s.observed
       THEN [cache |-> Store(s.cache, key, dependencies),
             observed |-> s.observed, value |-> dependencies]
       ELSE LET r == VisitOn(g, self, [cache |-> s.cache,
                                       observed |-> s.observed \cup {package}],
                             dependencies, {}, ord)
                value == Combined(dependencies, r.value)
            IN [cache |-> Store(r.cache, key, value), observed |-> r.observed,
                value |-> value]

VisitOn(g, self, s, todo, acc, ord) ==
    IF todo = {}
    THEN [cache |-> s.cache, observed |-> s.observed, value |-> acc]
    ELSE LET dependency == FirstOf(ord, todo)
             r == CalculateOn(g, self, s, dependency, ord)
         IN VisitOn(g, self, [cache |-> r.cache, observed |-> r.observed],
                    todo \ {dependency}, acc \cup r.value, ord)

\* Two engines are constructed, over any two graphs.
InitProcess ==
    /\ engines \in [Instances -> [dependency_dict : SingleDepGraphs, observed : {{}}]]
    /\ cache = EmptyMap
    /\ alone = [self \in Instances |-> [cache |-> EmptyMap, observed |-> {}]]
    /\ last = NoCall
    /\ origin = EmptyMap
    /\ Constructed(NoGraph)
    /\ NoBuild
    /\ NoMain

\* A top-level call of calculate_all_dependencies on one of the engines. alone
\* follows the same call in a process where the other engine is never called.
CallOn(self, package) ==
    LET g == engines[self].dependency_dict
        r == CalculateOn(g, self, [cache |-> cache,
                                   observed |-> engines[self].observed],
                         package, <<>>)
        a == CalculateOn(g, self, alone[self], package, <<>>)
    IN /\ cache' = r.cache
       /\ engines' = [engines EXCEPT ![self].observed = r.observed]
       /\ alone' = [alone EXCEPT ![self] = [cache |-> a.cache,
                                            observed |-> a.observed]]
       /\ last' = [self |-> self, package |-> package, value |-> r.value,
                   alone |-> a.value]
       /\ UNCHANGED <<origin, engineVars, buildVars, mainVars>>

NextProcess == \E self \in Instances, package \in Packages : CallOn(self, package)

SpecProcess == InitProcess /\ [][NextProcess]_vars

----
(***************************************************************************)
(* main: filter the ignored names out, then compute each package's         *)
(* dependency set.                                                         *)
(***************************************************************************)
IgnoreSets == {I \in SUBSET Names : Cardinality(I) <= MaxIgnore}

\* Variant: only the keys are filtered.
FilterPackagesKeysOnly(unfiltered, ignore) ==
    [package \in DOMAIN unfiltered \ ignore |-> unfiltered[package]]

\* packages: the keys and the dependencies that are not ignored.
FilterPackages(unfiltered, ignore) ==
    [package \in DOMAIN unfiltered \ ignore |-> unfiltered[package] \ ignore]

\* explicitly_installed_packages
FilterExplicit(unfiltered, ignore) == unfiltered \ ignore

\* The dict comprehension over packages, in the dict's order: one top-level
\* call per key on the same engine. Yields the engine state and the results.
RECURSIVE CalculateEach(_, _, _, _)
CalculateEach(e, keys, results, ord) ==
    IF keys = <<>>
    THEN [memo |-> e.memo, observed |-> e.observed, results |-> results]
    ELSE LET r == Calculate(e, Head(keys), ord)
         IN CalculateEach([memo |-> r.memo, observed |-> r.observed], Tail(keys),
                          Store(results, Head(keys), r.value), ord)

\* The names whose place in the iteration order shows: those of the dependency
\* sets with two or more members.
OrderedNames ==
    UNION {packages[p] : p \in {q \in DOMAIN packages : Cardinality(packages[q]) >= 2}}

\* Both listings have arrived: the ignored names are filtered out.
Filter ==
    /\ main_pc = "start"
    /\ packages' = FilterPackages(packages_unfiltered, ignore_set)
    /\ explicitly_installed_packages' =
           FilterExplicit(explicitly_installed_packages_unfiltered, ignore_set)
    /\ printed' = [printed EXCEPT
                       !.total = Cardinality(explicitly_installed_packages')]
    /\ main_pc' = "filtered"
    /\ UNCHANGED <<mainInputs, recursive_dependencies, key_order, reportVars,
                   engineVars, buildVars, processVars>>

\* dependency_calcualator = DependencyCalculator(packages)
Construct ==
    /\ main_pc = "filtered"
    /\ recursive
    /\ dependency_dict' = packages
    /\ observed_packages' = {}
    /\ memo' = EmptyMap
    /\ stack' = <<>>
    /\ returned' = NoReturn
    /\ answered' = EmptyMap
    /\ main_pc' = "constructed"
    /\ UNCHANGED <<mainInputs, packages, explicitly_installed_packages,
                   recursive_dependencies, key_order, printed, reportVars,
                   buildVars, processVars>>

\* recursive_dependencies in recursive mode: the closure of every key, the
\* keys and the dependency sets being iterated in some order.
ComputeRecursive ==
    /\ main_pc = "constructed"
    /\ \E keys \in Perms(DOMAIN packages), ord \in Perms(OrderedNames) :
           LET r == CalculateEach([memo |-> memo, observed |-> observed_packages],
                                  keys, EmptyMap, ord)
           IN /\ recursive_dependencies' = r.results
              /\ memo' = r.memo
              /\ observed_packages' = r.observed
              /\ key_order' = keys
    /\ main_pc' = "computed"
    /\ UNCHANGED <<mainInputs, packages, explicitly_installed_packages, printed,
                   reportVars, dependency_dict, stack, returned, answered,
                   buildVars, processVars>>

\* recursive_dependencies otherwise: the direct dependencies, the keys being
\* iterated in the dict's order.
ComputeDirect ==
    /\ main_pc = "filtered"
    /\ ~recursive
    /\ recursive_dependencies' = [package \in DOMAIN packages |-> packages[package]]
    /\ \E keys \in Perms(DOMAIN packages) : key_order' = keys
    /\ main_pc' = "computed"
    /\ UNCHANGED <<mainInputs, packages, explicitly_installed_packages, printed,
                   reportVars, engineVars, buildVars, processVars>>

\* Without --recursive the graph holds the explicitly installed packages only.
InitMain ==
    /\ packages_unfiltered \in MainGraphs
    /\ recursive \in BOOLEAN
    /\ explicitly_installed_packages_unfiltered \in
           IF recursive THEN SUBSET Packages ELSE {Packages}
    /\ ignore_set \in IgnoreSets
    /\ MainNotStarted
    /\ Constructed(NoGraph)
    /\ NoBuild
    /\ NoProcess

NextMain ==
    \/ Filter
    \/ Construct
    \/ ComputeRecursive
    \/ ComputeDirect

SpecMain == InitMain /\ [][NextMain]_vars

----
(***************************************************************************)
(* main: rank the packages, print the report and the dependency chains.    *)
(***************************************************************************)
MaxN == 2
MaxDepth == 2

\* Variant: the lightest package first.
SortKeyAscending(package) == Cardinality(recursive_dependencies[package])

\* key=lambda package: -len(recursive_dependencies[package])
SortKey(package) == -Cardinality(recursive_dependencies[package])

\* sorted(keys, key=...): ascending in the key, equal keys staying in the order
\* they come in.
RECURSIVE Sorted(_)
Sorted(keys) ==
    IF keys = <<>> THEN <<>>
    ELSE LET rest == Sorted(SubSeq(keys, 1, Len(keys) - 1))
             x == keys[Len(keys)]
             NotAfter(y) == SortKey(y) <= SortKey(x)
             After(y) == SortKey(y) > SortKey(x)
         IN SelectSeq(rest, NotAfter) \o <<x>> \o SelectSeq(rest, After)

\* packages_sorted: the ranked packages that are explicitly installed.
ExplicitOnly(ranking) ==
    LET Explicit(package) == package \in explicitly_installed_packages
    IN SelectSeq(ranking, Explicit)

\* seq[:stop]
Slice(seq, stop) ==
    IF stop >= 0
    THEN SubSeq(seq, 1, IF stop < Len(seq) THEN stop ELSE Len(seq))
    ELSE SubSeq(seq, 1, Len(seq) + stop)

Min(a, b) == IF a < b THEN a ELSE b

\* format_package: the name, the size of the computed set and, in recursive
\* mode, the number of direct dependencies.
FormatPackage(package) ==
    IF recursive
    THEN <<package, Cardinality(recursive_dependencies[package]),
           Cardinality(packages[package])>>
    ELSE <<package, Cardinality(recursive_dependencies[package])>>

\* None, and like it the empty name, counts as false.
None == ""

\* next((package for package in packages_sorted_unfiltered
\*       if package in dependencies), None)
HeaviestDependency(package) ==
    LET Member(candidate) == candidate \in recursive_dependencies[package]
        members == SelectSeq(packages_sorted_unfiltered, Member)
    IN IF members = <<>> THEN None ELSE Head(members)

\* Variant: one level too many.
GoesOnAtZero(heaviest_dependency, depth) ==
    heaviest_dependency # None /\ depth >= 0

\* if heaviest_dependency and depth - 1 >= 0
GoesOn(heaviest_dependency, depth) ==
    heaviest_dependency # None /\ depth - 1 >= 0

\* dependency_chain(package, depth): the entries joined by " -> ".
RECURSIVE DependencyChain(_, _)
DependencyChain(package, depth) ==
    LET heaviest_dependency == HeaviestDependency(package)
    IN <<FormatPackage(package)>> \o
       (IF GoesOn(heaviest_dependency, depth)
        THEN DependencyChain(heaviest_dependency, depth - 1)
        ELSE <<>>)

\* packages_sorted_unfiltered and packages_sorted
Sort ==
    /\ main_pc = "computed"
    /\ packages_sorted_unfiltered' = Sorted(key_order)
    /\ packages_sorted' = ExplicitOnly(packages_sorted_unfiltered')
    /\ main_pc' = "sorted"
    /\ UNCHANGED <<mainInputs, packages, explicitly_installed_packages,
                   recursive_dependencies, key_order, printed, walk,
                   engineVars, buildVars, processVars>>

\* The report: one line per package of packages_sorted[: min(n, len)], with its
\* chain when dependency_chain_length is not zero.
Report(n, dependency_chain_length) ==
    /\ main_pc = "sorted"
    /\ LET shown == Slice(packages_sorted, Min(n, Len(packages_sorted)))
       IN printed' =
              [printed EXCEPT
                  !.n = n,
                  !.lines =
                      [i \in 1..Len(shown) |->
                          [package |-> FormatPackage(shown[i]),
                           chain |-> IF dependency_chain_length # 0
                                     THEN DependencyChain(shown[i],
                                                          dependency_chain_length)
                                     ELSE <<>>]]]
    /\ main_pc' = "printed"
    /\ UNCHANGED <<mainInputs, packages, explicitly_installed_packages,
                   recursive_dependencies, key_order, reportVars,
                   engineVars, buildVars, processVars>>

NextReport ==
    \/ NextMain
    \/ Sort
    \/ \E n \in -1..MaxN, dependency_chain_length \in 0..MaxDepth :
           Report(n, dependency_chain_length)

SpecReport == InitMain /\ [][NextReport]_vars

----
(***************************************************************************)
(* dependency_chain, one invocation per step.                              *)
(***************************************************************************)
\* dependency_chain(package, depth) is called.
ChainCall(package, depth) ==
    /\ main_pc = "sorted"
    /\ walk.pc = "idle"
    /\ walk' = [pc |-> "walking", start |-> package, length |-> depth,
                package |-> package, depth |-> depth, out |-> <<>>]
    /\ UNCHANGED <<main_pc, mainInputs, packages, explicitly_installed_packages,
                   recursive_dependencies, key_order, printed,
                   packages_sorted_unfiltered, packages_sorted,
                   engineVars, buildVars, processVars>>

\* One invocation: the entry of its package, then either the call on the
\* heaviest dependency with one level less, or the return.
ChainStep ==
    /\ walk.pc = "walking"
    /\ LET heaviest_dependency == HeaviestDependency(walk.package)
           out == Append(walk.out, FormatPackage(walk.package))
       IN walk' = IF GoesOn(heaviest_dependency, walk.depth)
                  THEN [walk EXCEPT !.out = out,
                                    !.package = heaviest_dependency,
                                    !.depth = walk.depth - 1]
                  ELSE [walk EXCEPT !.out = out, !.pc = "done"]
    /\ UNCHANGED <<main_pc, mainInputs, packages, explicitly_installed_packages,
                   recursive_dependencies, key_order, printed,
                   packages_sorted_unfiltered, packages_sorted,
                   engineVars, buildVars, processVars>>

\* Nothing ignored, every package explicitly installed.
InitChain ==
    /\ packages_unfiltered \in MainGraphs
    /\ recursive \in BOOLEAN
    /\ explicitly_installed_packages_unfiltered = Packages
    /\ ignore_set = {}
    /\ MainNotStarted
    /\ Constructed(NoGraph)
    /\ NoBuild
    /\ NoProcess

NextChain ==
    \/ NextMain
    \/ Sort
    \/ \E package \in DOMAIN recursive_dependencies, depth \in -1..MaxDepth :
           ChainCall(package, depth)
    \/ ChainStep

LiveSpecChain == InitChain /\ [][NextChain]_vars /\ WF_vars(ChainStep)

----
\* Names reachable from package by one or more dependency edges.
RECURSIVE ReachFrom(_, _)
ReachFrom(frontier, seen) ==
    LET new == (UNION {Dependencies(q) : q \in frontier}) \ seen
    IN IF new = {} THEN seen ELSE ReachFrom(new, seen \cup new)

Reachable(package) == ReachFrom({package}, {})

OnCycle(package) == package \in Reachable(package)
Acyclic == \A p \in Names : ~OnCycle(p)

NameOrder == <<"A", "B", "C", "D">>

TypeOK ==
    /\ observed_packages \subseteq Names
    /\ DOMAIN memo \subseteq Names
    /\ \A i \in 1..Len(stack) : stack[i].package \in Names

\* What a freshly constructed engine returns for package as its first query.
FreshResult(package) == Calculate(FreshEngine, package, NameOrder).value

\* C1: every top-level call returns exactly the names reachable from its
\* package by one or more edges, whatever calls the engine answered before.
C1_TopLevelIsReachableSet ==
    returned.top => returned.value = Reachable(returned.package)

\* C2: every call terminates; a frame is only ever opened for a package that
\* was not observed before, so a package is expanded at most once per engine,
\* and the cycle guard answers with the direct dependencies without opening one.
C2_Terminates ==
    /\ (stack # <<>>) ~> (stack = <<>>)
    /\ [][/\ observed_packages \subseteq observed_packages'
          /\ Len(stack') > Len(stack) =>
                 /\ Len(stack') = Len(stack) + 1
                 /\ stack'[Len(stack')].package \notin observed_packages
                 /\ stack'[Len(stack')].package \in observed_packages'
          /\ (returned' # returned /\ returned'.branch = "guard") =>
                 /\ returned'.value = Dependencies(returned'.package)
                 /\ Len(stack') = Len(stack)]_vars

\* A top-level call on a package of a cycle has returned after the guard fired.
C2_Witness ==
    /\ stack = <<>>
    /\ returned.top
    /\ returned.branch = "expand"
    /\ OnCycle(returned.package)
    /\ \E p \in DOMAIN memo : memo[p] # Reachable(p)

\* C3: a top-level call returns what a fresh engine over the same graph returns
\* for the package as its first query, whatever was queried before.
C3_SameAsFreshEngine ==
    returned.top => returned.value = FreshResult(returned.package)

\* C4: once main has an answer for a package, the memoized entry of the package
\* stays that answer and every later top-level call returns it again.
C4_Idempotent ==
    \A p \in DOMAIN answered :
        /\ p \in DOMAIN memo
        /\ memo[p] = answered[p].first
        /\ (returned.top /\ returned.package = p) => returned.value = answered[p].first

\* A package on a cycle was queried, other packages after it, then it again.
C4_Witness ==
    /\ stack = <<>>
    /\ returned.top
    /\ returned.package \in DOMAIN answered
    /\ answered[returned.package].again
    /\ OnCycle(returned.package)
    /\ Cardinality(DOMAIN answered) >= 3

\* C5: whatever branch answers a call (expansion, cycle guard or cache), the
\* value returned contains every direct dependency of the package.
C5_SupersetOfDirect ==
    /\ returned.branch # "none" =>
           Dependencies(returned.package) \subseteq returned.value
    /\ \A p \in DOMAIN memo : Dependencies(p) \subseteq memo[p]

\* The cycle guard has just answered for a package with dependencies, on an
\* engine that has memoized an expansion larger than the direct dependencies.
C5_Witness ==
    /\ returned.branch = "guard"
    /\ Dependencies(returned.package) # {}
    /\ \E p \in DOMAIN memo : memo[p] # Dependencies(p) /\ Dependencies(p) # {}

\* C6: on an acyclic graph every call, in any query order, returns exactly the
\* names reachable from its package; a name that is no key has no dependencies.
C6_AcyclicExact ==
    Acyclic => /\ returned.branch # "none" =>
                      returned.value = Reachable(returned.package)
               /\ \A p \in DOMAIN memo : memo[p] = Reachable(p)

Diamond == [p \in Packages |->
               IF p = "A" THEN {"B", "C"} ELSE {UnknownName}]

\* The diamond A->B, A->C, B->D, C->D with D no key: after D, C and B were
\* queried, A is answered {B, C, D} and D was answered {}.
C6_Witness ==
    /\ dependency_dict = Diamond
    /\ stack = <<>>
    /\ returned = [package |-> "A", value |-> {"B", "C", UnknownName},
                   branch |-> "expand", top |-> TRUE]
    /\ UnknownName \in DOMAIN answered
    /\ answered[UnknownName].first = {}
    /\ DOMAIN answered = Names
----
\* The build ended, by returning or by raising.
BuildEnded == build_pc \in {"returned", "raised"}

\* C7: a package whose description has no "depends on" record, or an empty
\* one, or is empty altogether, gets an empty dependency collection.
C7_NoRecordGivesEmpty ==
    build_pc = "returned" =>
        \A p \in Packages :
            answer[p].stdout \in {NoOutput, OutNoRecord, OutEmptyValue} =>
                graph[p] = <<>>

\* What the build is to return: every listed package, with the dependencies
\* extracted from its own answer.
SequentialGraph == [p \in Packages |-> PackageDependencies(answer[p].stdout)]

\* C9: whatever order the tasks were created and finished in, the returned
\* dict is the one built by querying the packages one after another.
C9_OrderIndependent ==
    build_pc = "returned" => graph = SequentialGraph

\* The tasks finished in another order than gather's arguments, the packages
\* are not listed in name order and no two answers extract the same.
C9_Witness ==
    /\ build_pc = "returned"
    /\ completed # <<1, 2, 3>>
    /\ tasks[1].package # "A"
    /\ \A p, q \in Packages : p # q => graph[p] # graph[q]

\* C10: once the build has ended no task it started is still running.
C10_NoTaskOutlivesBuild ==
    BuildEnded => \A i \in 1..Len(tasks) : Finished(tasks[i])
----
\* C8: once main has filtered and computed, an ignored name is no key of the
\* graph or of the results, no member of a dependency set or of a computed
\* set, and not among the explicitly installed packages.
C8_IgnoredNowhere ==
    main_pc = "computed" =>
        \A X \in ignore_set :
            /\ X \notin DOMAIN packages
            /\ X \notin DOMAIN recursive_dependencies
            /\ X \notin explicitly_installed_packages
            /\ \A p \in DOMAIN packages : X \notin packages[p]
            /\ \A p \in DOMAIN recursive_dependencies :
                   X \notin recursive_dependencies[p]

\* In recursive mode an explicitly installed key that another package depends
\* on was ignored, and that package still has a non-empty closure.
C8_Witness ==
    /\ main_pc = "computed"
    /\ recursive
    /\ \E X \in ignore_set :
           /\ X \in DOMAIN packages_unfiltered
           /\ X \in explicitly_installed_packages_unfiltered
           /\ \E p \in DOMAIN packages :
                  /\ X \in packages_unfiltered[p]
                  /\ recursive_dependencies[p] # {}
----
\* C11: what an engine returns is what it would return had the other engine
\* of the process never been called: no entry memoized by one engine is
\* handed out by the other.
C11_NoSharingBetweenEngines ==
    /\ last.self # 0 => last.value = last.alone
    /\ \A self \in DOMAIN engines : engines[self].observed = alone[self].observed

\* The second engine has answered for a package the first engine, over another
\* graph, holds a different entry for.
C11_Witness ==
    /\ last.self = 2
    /\ engines[1].dependency_dict # engines[2].dependency_dict
    /\ CacheKey(1, last.package) \in DOMAIN cache
    /\ cache[CacheKey(1, last.package)] # last.value
    /\ last.value # engines[2].dependency_dict[last.package]
----
\* The packages whose expansion is on the recursion stack.
OnStack == {stack[i].package : i \in 1..Len(stack)}

\* C14: an observed package without a memoized entry is being expanded on the
\* current stack, so when no call is in progress every observed package is
\* memoized; the cycle guard answers only for a package on the stack, never
\* a top-level call.
C14_GuardOnlyOnStack ==
    /\ observed_packages \ DOMAIN memo \subseteq OnStack
    /\ stack = <<>> => observed_packages \subseteq DOMAIN memo
    /\ returned.branch = "guard" =>
           /\ ~returned.top
           /\ returned.package \in OnStack

\* A package on a cycle, visited by an earlier top-level query that has
\* returned, is met again inside a later traversal and answered from the cache.
C14_Witness ==
    /\ stack # <<>>
    /\ returned.branch = "cache"
    /\ ~returned.top
    /\ returned.package \in DOMAIN answered
    /\ OnCycle(returned.package)
    /\ returned.package \notin OnStack

\* C15: every name a call returns, and every name of a memoized entry, is
\* reachable from the package by one or more dependency edges.
C15_NeverOverReports ==
    /\ returned.branch # "none" =>
           returned.value \subseteq Reachable(returned.package)
    /\ \A p \in DOMAIN memo : memo[p] \subseteq Reachable(p)

\* The guard has written an entry, and a returned call left an entry that
\* lacks a reachable name.
C15_Witness ==
    /\ stack = <<>>
    /\ \E p \in DOMAIN memo : memo[p] # Reachable(p) /\ memo[p] # Dependencies(p)
    /\ \E p \in DOMAIN memo : OnCycle(p) /\ memo[p] = Reachable(p)
----
\* The memoized entry of p lacks a name reachable from p.
Incomplete(p) == memo[p] # Reachable(p)

\* The first top-level call a fresh engine answers returns the reachable set.
FirstCallExact ==
    \A p \in DOMAIN memo : origin[p] = "first" => ~Incomplete(p)

\* C16: the first top-level call on a fresh engine returns exactly
\* the reachable names, and an entry can be incomplete only if it was
\* memoized inside another package's traversal.
C16_OnlyNestedIncomplete ==
    /\ FirstCallExact
    /\ \A p \in DOMAIN memo : Incomplete(p) => origin[p] = "nested"

----
\* The packages of the report lines, in the order printed.
ReportedPackages == [i \in DOMAIN printed.lines |-> printed.lines[i].package[1]]
Reported == {ReportedPackages[i] : i \in DOMAIN ReportedPackages}

\* The set main computed for a package: what the engine returned for it in
\* recursive mode, its filtered direct dependencies otherwise.
ComputedSize(package) == Cardinality(recursive_dependencies[package])

\* C13: for n >= 0 the report lists at most n packages, each explicitly
\* installed, not ignored and a key of the graph, in non-increasing order of
\* the size of their computed set; a package left out whose set is strictly
\* larger than that of a reported one is not explicitly installed.
C13_ReportIsTopN ==
    (main_pc = "printed" /\ printed.n >= 0) =>
        /\ Len(printed.lines) <= printed.n
        /\ \A p \in Reported :
               /\ p \notin ignore_set
               /\ p \in explicitly_installed_packages_unfiltered
               /\ p \in DOMAIN packages_unfiltered
               /\ recursive_dependencies[p] =
                      IF recursive THEN memo[p] ELSE packages_unfiltered[p] \ ignore_set
        /\ \A i, j \in DOMAIN printed.lines :
               /\ printed.lines[i].package[2] = ComputedSize(ReportedPackages[i])
               /\ i < j => ComputedSize(ReportedPackages[i])
                               >= ComputedSize(ReportedPackages[j])
        /\ \A q \in DOMAIN recursive_dependencies \ Reported, p \in Reported :
               ComputedSize(q) > ComputedSize(p) =>
                   q \notin explicitly_installed_packages_unfiltered

\* Two packages of different sizes are reported, and a heavier package that is
\* not explicitly installed is left out.
C13_Witness ==
    /\ main_pc = "printed"
    /\ printed.n = 2
    /\ Len(printed.lines) = 2
    /\ ComputedSize(ReportedPackages[1]) > ComputedSize(ReportedPackages[2])
    /\ \E q \in DOMAIN recursive_dependencies \ Reported :
           ComputedSize(q) > ComputedSize(ReportedPackages[1])
----
\* The first package in ranking order that is a member of the set computed for
\* package, if there is one.
IsFirstRankedMember(candidate, package) ==
    \E k \in DOMAIN packages_sorted_unfiltered :
        /\ packages_sorted_unfiltered[k] = candidate
        /\ candidate \in recursive_dependencies[package]
        /\ \A j \in 1..(k - 1) :
               packages_sorted_unfiltered[j] \notin recursive_dependencies[package]

NoRankedMember(package) ==
    \A k \in DOMAIN packages_sorted_unfiltered :
        packages_sorted_unfiltered[k] \notin recursive_dependencies[package]

ChainBounded ==
    walk.length >= 0 => Len(walk.out) <= walk.length + 1

ChainEntries ==
    (walk.pc = "done" /\ walk.length >= 0) =>
        /\ walk.out[1] = FormatPackage(walk.start)
        /\ (walk.length = 0 \/ NoRankedMember(walk.start)) => Len(walk.out) = 1
        /\ \A i \in 2..Len(walk.out) :
               /\ IsFirstRankedMember(walk.out[i][1], walk.out[i - 1][1])
               /\ walk.out[i] = FormatPackage(walk.out[i][1])
        /\ walk.out = DependencyChain(walk.start, walk.length)

\* C12: for every package and depth d >= 0, dependency_chain returns, with at
\* most d + 1 entries, cycles or not; with the package alone when d = 0 or no
\* ranked package is in its computed set; every later entry is the first
\* package in ranking order that is in the previous entry's computed set.
C12_ChainWalk ==
    /\ (walk.pc = "walking") ~> (walk.pc = "done")
    /\ [][(walk.pc = "walking" /\ walk'.pc = "walking") =>
              walk'.depth < walk.depth]_vars
    /\ []ChainBounded
    /\ []ChainEntries

\* A chain of full length that comes back to its starting package.
C12_Witness ==
    /\ walk.pc = "done"
    /\ walk.length = MaxDepth
    /\ Len(walk.out) = MaxDepth + 1
    /\ walk.start \in recursive_dependencies[walk.start]
    /\ \E i \in 2..Len(walk.out) : walk.out[i][1] = walk.start
====
